---- MODULE Spec2Model ----
(***************************************************************************)
(* Inline-suggestion engine of the patent editor: the ProseMirror plugin   *)
(* of client/src/extensions/CursorStyleSuggestions.ts, the effect of       *)
(* client/src/internal/Editor.tsx that pushes a service response into it,  *)
(* and the inline-suggestion part of client/src/hooks/useSocket.ts.        *)
(*                                                                         *)
(* Text is a sequence of one-character strings.  The document is a single  *)
(* text block; an offset o of the model is the ProseMirror position o + 1  *)
(* of that block, so textBetween, insertText and position mapping are      *)
(* written over offsets 0 .. Len(doc).                                     *)
(***************************************************************************)
EXTENDS Integers, Sequences, FiniteSets, TLC

\* ------------------------------------------------------------------ bounds
\* Longest document the model lets the user build.
MaxDocLen == 2
\* Most suggestion requests sent over the socket in one run of Spec.
MaxRequests == 2
\* The same for the runs of SpecShared, whose plugin state adds to each of them.
MaxRequestsShared == 1
\* Most alternatives a service response carries.
MaxAlternatives == 2
\* Length of the anchor window (the code's 50), scaled to the documents above.
AnchorLen == 1
\* Length of the context windows of a request (the code's 100), scaled; like
\* the code's it holds the longest trigger keyword and the space after it.
ContextLen == 16
\* Least trimmed content length at which the timer asks (the code's 10), scaled.
MinContentLen == 1

\* Documents and versions the user switches between.
MaxDocumentId == 2
MaxVersionNumber == 2
\* Most updates made to the collaborative documents in one run.
MaxUpdates == 2

\* ------------------------------------------------------------- vocabulary
\* Characters the user types or a collaborator inserts.
Chars == {"a", " "}
\* Text of the i-th alternative of a response.
AltText(i) == <<<<"a">>, <<" ">>, <<"a", " ">>>>[i]

Max(a, b) == IF a >= b THEN a ELSE b
Min(a, b) == IF a <= b THEN a ELSE b

\* ------------------------------------------------- document model (library)
\* doc.textBetween(from, to): the text between two offsets; an end beyond the
\* document yields the text that is there.
textBetween(d, from, to) == SubSeq(d, from + 1, Min(to, Len(d)))

\* tr.insertText(text, pos) applied to the text.
insertText(d, text, pos) == SubSeq(d, 1, pos) \o text \o SubSeq(d, pos + 1, Len(d))

\* tr.delete(from, to) applied to the text.
deleteRange(d, from, to) == SubSeq(d, 1, from) \o SubSeq(d, to + 1, Len(d))

\* A step replaces oldSize characters at `start` by `text`; NoStep is a
\* transaction that leaves the document alone.
NoStep == <<>>
InsertStep(pos, text) == <<[start |-> pos, oldSize |-> 0, text |-> text]>>
DeleteStep(from, to) == <<[start |-> from, oldSize |-> to - from, text |-> <<>>]>>

applyStep(d, step) ==
  IF step = NoStep THEN d
  ELSE insertText(deleteRange(d, step[1].start, step[1].start + step[1].oldSize),
                  step[1].text, step[1].start)

\* StepMap.mapResult(pos, assoc): where a position lands after the step, and
\* whether the content on the side `assoc` of it was deleted.
mapResult(step, pos, assoc) ==
  IF step = NoStep THEN [pos |-> pos, deleted |-> FALSE]
  ELSE LET start == step[1].start
           oldSize == step[1].oldSize
           newSize == Len(step[1].text)
           end == start + oldSize
       IN IF start > pos THEN [pos |-> pos, deleted |-> FALSE]
          ELSE IF pos <= end
               THEN LET side == IF oldSize = 0 THEN assoc
                                ELSE IF pos = start THEN -1
                                ELSE IF pos = end THEN 1 ELSE assoc
                    IN [pos |-> start + (IF side < 0 THEN 0 ELSE newSize),
                        deleted |-> IF assoc < 0 THEN pos # start ELSE pos # end]
               ELSE [pos |-> pos + newSize - oldSize, deleted |-> FALSE]

\* -------------------------------------------------------------- plugin keys
\* new PluginKey(name): the first key of a name is name$, every later one
\* name$1, name$2, ...  The plugin's key is created first.
pluginKey == "cursorStyleSuggestions$"
\* The key addCommands builds anew inside setSuggestion and clearSuggestion.
freshKey == "cursorStyleSuggestions$1"

\* Transaction metadata: a function from keys to values.  A value is <<>>
\* for null and <<s>> for a suggestion s; an absent key reads as undefined.
NoMeta == <<>>
setMeta(key, value) == key :> value
hasMeta(meta, key) == key \in DOMAIN meta
null == <<>>

\* ------------------------------------------------------------- decorations
\* createGhostTextDecoration: a widget showing the current alternative.
\* It reads alternatives[currentIndex].text, which throws when the index is
\* not one of the list.
\* Variant of ghostThrows in which no index is refused; C18 must fail on it.
ghostThrowsNever(suggestion) == FALSE

ghostThrows(suggestion) ==
  suggestion.currentIndex \notin 0 .. (Len(suggestion.alternatives) - 1)

\* The widget is built only where the read of the alternative succeeds.
createGhostTextDecoration(suggestion, position) ==
  [key |-> "ghost-text", pos |-> position,
   text |-> IF suggestion.currentIndex \in 0 .. (Len(suggestion.alternatives) - 1)
            THEN suggestion.alternatives[suggestion.currentIndex + 1]
            ELSE <<>>,
   counter |-> <<>>]

\* createHintDecoration: the key hints, with the counter i/N when there is
\* more than one alternative.
createHintDecoration(suggestion, position) ==
  [key |-> "suggestion-hint", pos |-> position, text |-> <<>>,
   counter |-> IF Len(suggestion.alternatives) > 1
               THEN <<suggestion.currentIndex + 1, Len(suggestion.alternatives)>>
               ELSE <<>>]

DecorationSetEmpty == <<>>

\* DecorationSet.map: each widget (side 1) is mapped with assoc 1 and dropped
\* when the mapping deleted it.
RECURSIVE mapDecorations(_, _)
mapDecorations(decorations, step) ==
  IF decorations = <<>> THEN <<>>
  ELSE LET r == mapResult(step, decorations[1].pos, 1)
           rest == mapDecorations(Tail(decorations), step)
       IN IF r.deleted THEN rest
          ELSE <<[decorations[1] EXCEPT !.pos = r.pos]>> \o rest

\* ------------------------------------------------------ Plugin.state.apply
pluginInit == [suggestion |-> null, decorations |-> DecorationSetEmpty]

\* Variant of anchorStale that keeps every suggestion; C11 must fail on it.
anchorStaleNever(state, oldDoc, newDoc) == FALSE

\* Variant of anchorStale that reads the document before the change, so that
\* the check lags a transaction behind; C12 must fail on it.
anchorStaleLate(state, oldDoc, newDoc) ==
  /\ state.suggestion # null
  /\ oldDoc # newDoc
  /\ textBetween(oldDoc, Max(0, state.suggestion[1].position - AnchorLen),
                 state.suggestion[1].position) # state.suggestion[1].anchorText

\* The anchor check of apply: the suggestion is stale when the document
\* changed and the text before suggestion.position is not anchorText.
anchorStale(state, oldDoc, newDoc) ==
  /\ state.suggestion # null
  /\ oldDoc # newDoc
  /\ textBetween(newDoc, Max(0, state.suggestion[1].position - AnchorLen),
                 state.suggestion[1].position) # state.suggestion[1].anchorText

\* Variant of clears that overlooks the request; C8 must fail on it.
clearsNever(meta) == FALSE

\* tr.getMeta(pluginKey) === null: the transaction asks to clear.
clears(meta) == hasMeta(meta, pluginKey) /\ meta[pluginKey] = null

\* tr.getMeta(pluginKey) is a suggestion: the transaction asks to show it.
installs(meta) == hasMeta(meta, pluginKey) /\ meta[pluginKey] # null

\* apply throws when it has to draw a suggestion whose index is out of range.
applyThrows(meta, state, oldDoc, newDoc) ==
  /\ ~anchorStale(state, oldDoc, newDoc)
  /\ installs(meta)
  /\ ghostThrows(meta[pluginKey][1])

\* Variant of apply that goes back to the first alternative when it maps the
\* decorations through a change; C24 must fail on it.
applyForgetsIndex(meta, step, state, oldDoc, newDoc) ==
  IF anchorStale(state, oldDoc, newDoc) THEN pluginInit
  ELSE IF clears(meta) THEN pluginInit
  ELSE IF installs(meta)
       THEN [suggestion |-> meta[pluginKey],
             decorations |->
               <<createGhostTextDecoration(meta[pluginKey][1], meta[pluginKey][1].position),
                 createHintDecoration(meta[pluginKey][1], meta[pluginKey][1].position)>>]
  ELSE IF state.suggestion # null
       THEN [suggestion |-> <<[state.suggestion[1] EXCEPT !.currentIndex = 0]>>,
             decorations |-> mapDecorations(state.decorations, step)]
  ELSE state

apply(meta, step, state, oldDoc, newDoc) ==
  IF anchorStale(state, oldDoc, newDoc) THEN pluginInit
  ELSE IF clears(meta) THEN pluginInit
  ELSE IF installs(meta)
       THEN [suggestion |-> meta[pluginKey],
             decorations |->
               <<createGhostTextDecoration(meta[pluginKey][1], meta[pluginKey][1].position),
                 createHintDecoration(meta[pluginKey][1], meta[pluginKey][1].position)>>]
  ELSE IF state.suggestion # null
       THEN [state EXCEPT !.decorations = mapDecorations(state.decorations, step)]
  ELSE state

\* ------------------------------------------------------------------ state
VARIABLES
  doc,               \* the editor's text (state.doc.textContent)
  selection,         \* state.selection.from, the cursor offset
  plugin,            \* the plugin state: [suggestion, decorations]
  timeouts,          \* number of scheduled debounce callbacks
  debounceTimer,     \* the handle: "null", "pending" (of a scheduled callback) or "spent"
  currentDocKey,     \* the document key handleTextInput saw last
  pendingSuggestion, \* useSocket's pendingSuggestion: null or <<response>>
  requests,          \* inline_suggestion requests the service has not answered
  readyState,        \* wsRef.current.readyState: "CONNECTING", "OPEN", "CLOSING", "CLOSED"
  commandKey,        \* the key setSuggestion / clearSuggestion write under
  requestsLeft,      \* requests the socket may still carry (bound of the run)
  analysisResult,    \* useSocket's analysisResult: "null" or the kind of result stored last
  lastEvent,         \* what the last handler was and did (history)
  documentId,        \* the collaborative Editor's prop documentId
  versionNumber,     \* the collaborative Editor's prop versionNumber
  ydoc,              \* the updates the Editor's one Y.Doc holds
  provider,          \* the room the Editor's provider is connected to
  rooms,             \* the updates the collaboration server holds, per room
  lastDocContent,    \* InlineSuggestions: the content handleContentChange saw last
  timerState,        \* InlineSuggestions: the editor state its pending timer captured
  isConnected,       \* useSocket's isConnected
  isAnalyzing,       \* useSocket's isAnalyzing
  currentPhase,      \* useSocket's currentPhase: "undefined" or a phase
  streamUpdates,     \* useSocket's streamUpdates
  reconnectTimeout,  \* the effect's handle: "null", "pending" or "cleared" (kept, cancelled)
  reconnectTimers,   \* number of scheduled reconnect callbacks
  mounted,           \* the component using the hook is mounted
  established        \* the current socket has been open (history)

\* The state of the collaboration of the Editor with its rooms.
roomVars == <<documentId, versionNumber, ydoc, provider, rooms>>

\* The state of the InlineSuggestions extension the collaborative Editor uses.
inlineVars == <<lastDocContent, timerState>>

\* The state of useSocket that the analysis and the reconnection use.
hookVars == <<isConnected, isAnalyzing, currentPhase, streamUpdates, reconnectTimeout,
              reconnectTimers, mounted, established>>

\* useSocket after its first render and effect: the useState defaults, and
\* the first socket connecting.
hookInit ==
  /\ isConnected = FALSE
  /\ isAnalyzing = FALSE
  /\ currentPhase = "undefined"
  /\ streamUpdates = <<>>
  /\ reconnectTimeout = "null"
  /\ reconnectTimers = 0
  /\ mounted = TRUE
  /\ established = FALSE

collabVars == <<roomVars, inlineVars, hookVars>>

vars == <<doc, selection, plugin, timeouts, debounceTimer, currentDocKey,
          pendingSuggestion, requests, readyState, commandKey, requestsLeft,
          analysisResult, lastEvent, collabVars>>

\* documentKey option: `${documentId}-${versionNumber}`, fixed when the
\* extension is configured.
documentKey == "1-1"

Event(op, key, result) == [op |-> op, key |-> key, result |-> result]

\* ------------------------------------------------------------ collaboration
\* The Editor that collaborates: one Y.Doc for the life of the component, and
\* a provider that an effect connects to the room of the document and
\* version shown.  An update is a change of the shared text; `room` is
\* history: the room the client that made it was connected to.
suggestionVars == <<doc, selection, plugin, timeouts, debounceTimer, currentDocKey,
                    pendingSuggestion, requests, readyState, commandKey, requestsLeft,
                    analysisResult, lastEvent>>

DocumentIds == 1 .. MaxDocumentId
VersionNumbers == 1 .. MaxVersionNumber

\* `document-${documentId}-v${versionNumber}`
roomName(d, v) == "document-" \o ToString(d) \o "-v" \o ToString(v)

Rooms == {roomName(d, v) : d \in DocumentIds, v \in VersionNumbers}

allUpdates == ydoc \cup UNION {rooms[r] : r \in Rooms}

newUpdate(r) == [room |-> r, n |-> Cardinality(allUpdates) + 1]

\* The first render and its effect: the provider joins the room of the
\* document shown first.
collabInit ==
  /\ documentId = 1
  /\ versionNumber = 1
  /\ ydoc = {}
  /\ provider = roomName(1, 1)
  /\ rooms = [r \in Rooms |-> {}]
  /\ lastDocContent = <<>>
  /\ timerState = [doc |-> <<>>, selection |-> 0, origin |-> "none"]
  /\ hookInit

\* The user opens another document or version: the props change and the
\* effect destroys the provider and connects a new one, for the new room, to
\* the same Y.Doc.
collabEffect ==
  \E d \in DocumentIds, v \in VersionNumbers :
    /\ <<d, v>> # <<documentId, versionNumber>>
    /\ documentId' = d
    /\ versionNumber' = v
    /\ provider' = roomName(d, v)
    /\ UNCHANGED <<ydoc, rooms, suggestionVars, inlineVars, hookVars>>

\* The user types: the Collaboration extension writes the change to the Y.Doc.
collabEdit ==
  /\ Cardinality(allUpdates) < MaxUpdates
  /\ ydoc' = ydoc \cup {newUpdate(provider)}
  /\ UNCHANGED <<documentId, versionNumber, provider, rooms, suggestionVars, inlineVars, hookVars>>

\* The provider's sync with its room: each side sends the other what it
\* lacks, on connection and after every update.
providerSync ==
  /\ ydoc # rooms[provider]
  /\ ydoc' = ydoc \cup rooms[provider]
  /\ rooms' = [rooms EXCEPT ![provider] = ydoc \cup rooms[provider]]
  /\ UNCHANGED <<documentId, versionNumber, provider, suggestionVars, inlineVars, hookVars>>

\* A user in another tab types into the room that tab has joined.
roomEdit ==
  \E r \in Rooms :
    /\ Cardinality(allUpdates) < MaxUpdates
    /\ rooms' = [rooms EXCEPT ![r] = rooms[r] \cup {newUpdate(r)}]
    /\ UNCHANGED <<documentId, versionNumber, ydoc, provider, suggestionVars, inlineVars, hookVars>>

NextCollab ==
  \/ collabEffect
  \/ collabEdit
  \/ providerSync
  \/ roomEdit

\* -------------------------------------------------------- view.dispatch(tr)
\* The editor state after a transaction with this metadata and step; a
\* transaction whose application throws leaves the state as it was.
dispatch(v, meta, step) ==
  LET newDoc == applyStep(v.doc, step)
  IN IF applyThrows(meta, v.plugin, v.doc, newDoc) THEN v
     ELSE [doc |-> newDoc,
           selection |-> mapResult(step, v.selection, 1).pos,
           plugin |-> apply(meta, step, v.plugin, v.doc, newDoc)]

view == [doc |-> doc, selection |-> selection, plugin |-> plugin]

setView(v) ==
  /\ doc' = v.doc
  /\ selection' = v.selection
  /\ plugin' = v.plugin

\* ------------------------------------------------ shouldTriggerSuggestion
\* \s of the regular expressions and the white space trim() removes.
isSpace(c) == c \in {" ", "\t", "\n"}

RECURSIVE trimStart(_)
trimStart(s) == IF s # <<>> /\ isSpace(Head(s)) THEN trimStart(Tail(s)) ELSE s

RECURSIVE trimEnd(_)
trimEnd(s) ==
  IF s # <<>> /\ isSpace(s[Len(s)]) THEN trimEnd(SubSeq(s, 1, Len(s) - 1)) ELSE s

trim(s) == trimEnd(trimStart(s))

endsWith(s, suffix) ==
  Len(s) >= Len(suffix) /\ SubSeq(s, Len(s) - Len(suffix) + 1, Len(s)) = suffix

\* /[.!?]\s$/
endsInPunctuationSpace(before) ==
  /\ Len(before) >= 2
  /\ isSpace(before[Len(before)])
  /\ before[Len(before) - 1] \in {".", "!", "?"}

Upper == <<"A", "B", "C", "D", "E", "G", "H", "I", "L", "M", "N", "O", "P", "R", "S", "T",
           "U", "W", "Y", "Z">>
Lower == <<"a", "b", "c", "d", "e", "g", "h", "i", "l", "m", "n", "o", "p", "r", "s", "t",
           "u", "w", "y", "z">>

toLowerCase(c) ==
  IF \E i \in 1 .. Len(Upper) : Upper[i] = c
  THEN Lower[CHOOSE i \in 1 .. Len(Upper) : Upper[i] = c]
  ELSE c

Keywords ==
  {<<"s", "h", "a", "l", "l">>,
   <<"h", "e", "r", "e", "b", "y">>,
   <<"p", "u", "r", "s", "u", "a", "n", "t", " ", "t", "o">>,
   <<"n", "o", "t", "w", "i", "t", "h", "s", "t", "a", "n", "d", "i", "n", "g">>,
   <<"w", "h", "e", "r", "e", "a", "s">>}

\* /(shall|hereby|pursuant to|notwithstanding|whereas)\s$/i
endsInKeywordSpace(before) ==
  /\ before # <<>>
  /\ isSpace(before[Len(before)])
  /\ \E k \in Keywords :
       endsWith([i \in 1 .. (Len(before) - 1) |-> toLowerCase(before[i])], k)

\* Variant of shouldTriggerSuggestion that measures the content with the white
\* space at its ends; C22 must fail on it.
shouldTriggerUntrimmed(before, content) ==
  IF Len(content) < MinContentLen THEN FALSE
  ELSE IF endsWith(before, <<" ">>) THEN TRUE
  ELSE IF endsInPunctuationSpace(before) THEN TRUE
  ELSE IF endsInKeywordSpace(before) THEN TRUE
  ELSE FALSE

shouldTriggerSuggestion(before, content) ==
  IF Len(trim(content)) < MinContentLen THEN FALSE
  ELSE IF endsWith(before, <<" ">>) THEN TRUE
  ELSE IF endsInPunctuationSpace(before) THEN TRUE
  ELSE IF endsInKeywordSpace(before) THEN TRUE
  ELSE FALSE

\* ------------------------------------------------------------------ timers
\* Variant of clearTimeout that unschedules nothing; C9 must fail on it.
clearTimeoutNever(ts, handle) == ts

\* clearTimeout(debounceTimer): unschedules the callback the handle names,
\* the one scheduled last; the handle of a callback that ran does nothing.
clearTimeout(ts, handle) == IF handle = "pending" THEN ts - 1 ELSE ts

\* setTimeout(callback, debounceMs)
setTimeout(ts) == ts + 1

\* --------------------------------------------------- requestInlineSuggestion
\* Sends the request when the socket is open and drops it otherwise.  The
\* field `superseded` is history: a later request has been sent since; field
\* `number` is history too: which request of the session this one is.
requestInlineSuggestion(reqs, content, cursorPos, contextBefore, contextAfter) ==
  IF readyState # "OPEN" THEN reqs
  ELSE Append([i \in 1 .. Len(reqs) |-> [reqs[i] EXCEPT !.superseded = TRUE]],
              [content |-> content, cursor_position |-> cursorPos,
               context_before |-> contextBefore, context_after |-> contextAfter,
               superseded |-> FALSE, number |-> requestsLeft])

\* Variant of requestNow that asks only when the gate lets it; C16 must fail on it.
requestNowGated(reqs) ==
  IF shouldTriggerSuggestion(textBetween(doc, Max(0, selection - ContextLen), selection), doc)
  THEN requestInlineSuggestion(reqs, doc, selection,
         textBetween(doc, Max(0, selection - ContextLen), selection),
         textBetween(doc, selection, Min(Len(doc), selection + ContextLen)))
  ELSE reqs

\* Variant of requestNow that sends all the text before the cursor as the
\* window before it; C26 must fail on it.
requestNowUnbounded(reqs) ==
  requestInlineSuggestion(reqs, doc, selection,
    textBetween(doc, 0, selection),
    textBetween(doc, selection, Min(Len(doc), selection + ContextLen)))

\* onSuggestionRequest(textContent, pos, contextBefore, contextAfter) with
\* what the editor state holds now.
requestNow(reqs) ==
  requestInlineSuggestion(reqs, doc, selection,
    textBetween(doc, Max(0, selection - ContextLen), selection),
    textBetween(doc, selection, Min(Len(doc), selection + ContextLen)))

\* The socket can still carry what n scheduled or immediate requests may send.
roomFor(n) == readyState = "CLOSED" \/ n <= requestsLeft

\* -------------------------------------------------------- service response
\* The reply of the suggestion service to a request: anchored at the offset
\* of the request, with the text before it as anchor_text.  The service makes
\* one suggestion per request and gives each its own suggestion_id, here the
\* number of the request.  `fromLatest` is history: no later request had been
\* sent when the reply was made.
response(req, n, index) ==
  [suggestion_id |-> req.number,
   position |-> req.cursor_position,
   anchor_text |-> SubSeq(req.context_before,
                          Max(1, Len(req.context_before) - AnchorLen + 1),
                          Len(req.context_before)),
   alternatives |-> [i \in 1 .. n |-> AltText(i)],
   current_index |-> index,
   fromLatest |-> ~req.superseded]

\* Editor's conversion of a response to a CursorStyleSuggestion.
cursorSuggestion(r) ==
  [id |-> r.suggestion_id, position |-> r.position, alternatives |-> r.alternatives,
   currentIndex |-> r.current_index, anchorText |-> r.anchor_text]

\* setSuggestion(suggestion) and clearSuggestion(): the metadata of the
\* transaction the command chain dispatches.
setSuggestion(suggestion) == setMeta(commandKey, <<suggestion>>)
clearSuggestion == setMeta(commandKey, null)

\* Variant of editorEffect that writes the shown text into the document;
\* C17 must fail on it.
editorEffectTyping(v, pending) ==
  IF pending # null /\ Len(pending[1].alternatives) > 0
  THEN dispatch(v, setSuggestion(cursorSuggestion(pending[1])),
                InsertStep(0, pending[1].alternatives[1]))
  ELSE IF pending = null THEN dispatch(v, clearSuggestion, NoStep)
  ELSE v

\* Editor's effect on pendingSuggestion, run when React commits a new value:
\* setSuggestion for a response with alternatives, clearSuggestion for null,
\* nothing for a response without alternatives.
editorEffect(v, pending) ==
  IF pending # null /\ Len(pending[1].alternatives) > 0
  THEN dispatch(v, setSuggestion(cursorSuggestion(pending[1])), NoStep)
  ELSE IF pending = null THEN dispatch(v, clearSuggestion, NoStep)
  ELSE v

\* The effect throws when the transaction it dispatches cannot be applied.
editorEffectThrows(v, pending) ==
  /\ pending # null
  /\ Len(pending[1].alternatives) > 0
  /\ applyThrows(setSuggestion(cursorSuggestion(pending[1])), v.plugin, v.doc, v.doc)

\* Variant of afterCallback in which the hook keeps the response, so that the
\* effect pushes it again; C31 must fail on it.
afterCallbackKeeps(v) ==
  IF pendingSuggestion # null THEN editorEffect(v, pendingSuggestion) ELSE v

\* acceptInlineSuggestion / rejectInlineSuggestion: setPendingSuggestion(null),
\* after which the effect runs if the value changed.
afterCallback(v) == IF pendingSuggestion # null THEN editorEffect(v, null) ELSE v

removeAt(q, i) == SubSeq(q, 1, i - 1) \o SubSeq(q, i + 1, Len(q))

\* -------------------------------------------------------------------- Init
InitWith(key, budget) ==
  /\ doc = <<>>
  /\ selection = 0
  /\ plugin = pluginInit
  /\ timeouts = 0
  /\ debounceTimer = "null"
  /\ currentDocKey = "null"
  /\ pendingSuggestion = null
  /\ requests = <<>>
  /\ readyState = "CONNECTING"
  /\ commandKey = key
  /\ requestsLeft = budget
  /\ analysisResult = "null"
  /\ lastEvent = Event("init", "", "")
  /\ collabInit

\* The program as written: the commands write under a key of their own.
Init == InitWith(freshKey, MaxRequests)

\* Requests the call of onSuggestionRequest sends now: one on an open socket.
sentNow == IF readyState = "OPEN" THEN 1 ELSE 0

\* ----------------------------------------------------------------- actions
\* handleTextInput, followed by the insertion of the typed character that the
\* editor performs when the handler returns false.
handleTextInput ==
  \E ch \in Chars :
    /\ Len(doc) < MaxDocLen
    /\ LET first == currentDocKey # documentKey
           cleared == clearTimeout(timeouts, debounceTimer)
           v1 == IF first THEN dispatch(view, setMeta(pluginKey, null), NoStep) ELSE view
           v2 == dispatch(v1, NoMeta, InsertStep(selection, <<ch>>))
       IN /\ first \/ roomFor(cleared + 1)
          /\ currentDocKey' = documentKey
          /\ timeouts' = IF first THEN cleared ELSE setTimeout(cleared)
          /\ debounceTimer' = IF first
                              THEN (IF debounceTimer = "null" THEN "null" ELSE "spent")
                              ELSE "pending"
          /\ setView(v2)
          /\ lastEvent' = Event("textInput", ch, IF first THEN "reset" ELSE "timer")
    /\ UNCHANGED <<collabVars, pendingSuggestion, requests, readyState, commandKey,
                   analysisResult, requestsLeft>>

\* A transaction that changes the document without text input: a deletion,
\* a paste, or the edit of a collaborator.  handleTextInput does not run.
Steps(d) ==
  {InsertStep(p, <<ch>>) : p \in 0 .. (IF Len(d) < MaxDocLen THEN Len(d) ELSE -1),
                           ch \in Chars}
  \cup {DeleteStep(p, p + 1) : p \in 0 .. (Len(d) - 1)}

documentChange ==
  \E origin \in {"local", "remote"}, step \in Steps(doc) :
    /\ setView(dispatch(view, NoMeta, step))
    /\ lastEvent' = Event("change", origin, "")
    /\ UNCHANGED <<collabVars, timeouts, debounceTimer, currentDocKey, pendingSuggestion,
                   requests, readyState, commandKey, analysisResult, requestsLeft>>

\* The user moves the cursor (a click, or an arrow key the plugin let pass).
setSelection ==
  \E pos \in 0 .. Len(doc) :
    /\ pos # selection
    /\ selection' = pos
    /\ lastEvent' = Event("selection", "", "")
    /\ UNCHANGED <<collabVars, doc, plugin, timeouts, debounceTimer, currentDocKey,
                   pendingSuggestion, requests, readyState, commandKey, analysisResult, requestsLeft>>

Keys == {"Tab", "Escape", "ArrowRight", "ArrowLeft", "Shift"}

\* Variant of nextIndex that does not wrap; C7 must fail on it.
nextIndexNoWrap(suggestion) == suggestion.currentIndex + 1

\* ArrowRight: the index of the next alternative.
nextIndex(suggestion) ==
  (suggestion.currentIndex + 1) % Len(suggestion.alternatives)

\* ArrowLeft: the index of the previous alternative.
previousIndex(suggestion) ==
  IF suggestion.currentIndex = 0 THEN Len(suggestion.alternatives) - 1
  ELSE suggestion.currentIndex - 1

\* The text Tab inserts.
acceptedText(suggestion) == suggestion.alternatives[suggestion.currentIndex + 1]

\* tr.insertText resolves the position and throws a RangeError outside the
\* document, whose last position is the one after the closed text block.
insertThrows(d, pos) == pos < 0 \/ pos > Len(d) + 1

\* Variant of moreThanOne that lets a single alternative cycle; C10 must fail on it.
moreThanOneAlways(suggestion) == TRUE

\* alternatives.length > 1: there is another alternative to cycle to.
moreThanOne(suggestion) == Len(suggestion.alternatives) > 1

\* handleKeyDown.  Tab at the position after the text block would open a
\* second block; the model keeps one block and leaves that insertion out.
handleKeyDown ==
  \E key \in Keys :
    LET s == plugin.suggestion[1]
        cycled(i) == [s EXCEPT !.currentIndex = i]
        pass(result) == /\ UNCHANGED <<doc, selection, plugin, pendingSuggestion>>
                        /\ lastEvent' = Event("keyDown", key, result)
    IN /\ IF plugin.suggestion = null THEN pass("pass")
          ELSE IF key = "Tab"
               THEN IF insertThrows(doc, s.position) THEN pass("threw")
                    ELSE /\ s.position <= Len(doc)
                         /\ Len(doc) + Len(acceptedText(s)) <= MaxDocLen
                         /\ setView(afterCallback(
                              dispatch(view, setMeta(pluginKey, null),
                                       InsertStep(s.position, acceptedText(s)))))
                         /\ pendingSuggestion' = null
                         /\ lastEvent' = Event("keyDown", key, "accepted")
          ELSE IF key = "Escape"
               THEN /\ setView(afterCallback(
                         dispatch(view, setMeta(pluginKey, null), NoStep)))
                    /\ pendingSuggestion' = null
                    /\ lastEvent' = Event("keyDown", key, "rejected")
          ELSE IF key = "ArrowRight" /\ moreThanOne(s)
               THEN /\ setView(dispatch(view, setMeta(pluginKey, <<cycled(nextIndex(s))>>),
                                        NoStep))
                    /\ UNCHANGED pendingSuggestion
                    /\ lastEvent' = Event("keyDown", key, "cycled")
          ELSE IF key = "ArrowLeft" /\ moreThanOne(s)
               THEN /\ setView(dispatch(view, setMeta(pluginKey, <<cycled(previousIndex(s))>>),
                                        NoStep))
                    /\ UNCHANGED pendingSuggestion
                    /\ lastEvent' = Event("keyDown", key, "cycled")
          ELSE pass("pass")
       /\ UNCHANGED <<collabVars, timeouts, debounceTimer, currentDocKey, requests, readyState,
                      commandKey, analysisResult, requestsLeft>>

\* The debounce callback: asks for a suggestion when the gate lets it.
\* `last` tells whether the callback is the one the handle names.
debounceCallback ==
  \E last \in BOOLEAN :
    /\ timeouts > 0
    /\ last => debounceTimer = "pending"
    /\ ~last => timeouts > (IF debounceTimer = "pending" THEN 1 ELSE 0)
    /\ timeouts' = timeouts - 1
    /\ debounceTimer' = IF last THEN "spent" ELSE debounceTimer
    /\ LET before == textBetween(doc, Max(0, selection - ContextLen), selection)
           when == IF last THEN "last" ELSE "earlier"
       IN IF shouldTriggerSuggestion(before, doc)
          THEN /\ requests' = requestNow(requests)
               /\ requestsLeft' = requestsLeft - sentNow
               /\ lastEvent' = Event("timer", when, "request")
          ELSE /\ UNCHANGED <<requests, requestsLeft>>
               /\ lastEvent' = Event("timer", when, "")
    /\ UNCHANGED <<collabVars, doc, selection, plugin, currentDocKey, pendingSuggestion,
                   readyState, commandKey, analysisResult>>

\* Mod-Space: asks at once, whatever the text.
manualTrigger ==
  /\ roomFor(timeouts + 1)
  /\ requests' = requestNow(requests)
  /\ requestsLeft' = requestsLeft - sentNow
  /\ lastEvent' = Event("manual", "", "request")
  /\ UNCHANGED <<collabVars, doc, selection, plugin, timeouts, debounceTimer, currentDocKey,
                 pendingSuggestion, readyState, commandKey, analysisResult>>

\* ws.onmessage with an inline_suggestion reply to one of the requests:
\* setPendingSuggestion(reply), after which Editor's effect runs.
onmessage ==
  \E i \in 1 .. Len(requests), n \in 0 .. MaxAlternatives,
     index \in 0 .. (MaxAlternatives - 1) :
    LET reply == <<response(requests[i], n, index)>>
    IN /\ readyState = "OPEN"
       /\ n = 0 => index = 0
       /\ pendingSuggestion' = reply
       /\ setView(editorEffect(view, reply))
       /\ requests' = removeAt(requests, i)
       /\ lastEvent' = Event("message",
                             IF requests[i].superseded THEN "stale" ELSE "latest",
                             IF editorEffectThrows(view, reply) THEN "threw" ELSE "")
       /\ UNCHANGED <<collabVars, timeouts, debounceTimer, currentDocKey, readyState, commandKey, analysisResult,
                      requestsLeft>>

\* ws.onmessage with a reply that is no suggestion: an error message of the
\* service (status 'error') or text that JSON.parse rejects.  Both branches
\* store an error as analysisResult, which the suggestions panel displays.
onmessageError ==
  \E i \in 1 .. Len(requests), kind \in {"error", "malformed"} :
    /\ readyState = "OPEN"
    /\ analysisResult' = "error"
    /\ requests' = removeAt(requests, i)
    /\ lastEvent' = Event("message",
                          IF requests[i].superseded THEN "stale" ELSE "latest", kind)
    /\ UNCHANGED <<collabVars, doc, selection, plugin, timeouts, debounceTimer, currentDocKey,
                   pendingSuggestion, readyState, commandKey, requestsLeft>>

\* ws.onopen
onopen ==
  /\ readyState = "CONNECTING"
  /\ readyState' = "OPEN"
  /\ lastEvent' = Event("open", "", "")
  /\ UNCHANGED <<collabVars, doc, selection, plugin, timeouts, debounceTimer, currentDocKey,
                 pendingSuggestion, requests, commandKey, analysisResult, requestsLeft>>

\* ws.onclose: the connection is gone, and with it the requests in flight.
onclose ==
  /\ readyState \in {"CONNECTING", "OPEN"}
  /\ readyState' = "CLOSED"
  /\ requests' = <<>>
  /\ lastEvent' = Event("close", "", "")
  /\ UNCHANGED <<collabVars, doc, selection, plugin, timeouts, debounceTimer, currentDocKey,
                 pendingSuggestion, commandKey, analysisResult, requestsLeft>>

Next ==
  \/ handleTextInput
  \/ documentChange
  \/ setSelection
  \/ handleKeyDown
  \/ debounceCallback
  \/ manualTrigger
  \/ onmessage
  \/ onopen
  \/ onclose

Spec == Init /\ [][Next]_vars

\* The same program with the commands writing under the plugin's own key,
\* as Editor.tsx assumes: a response pushed by the effect reaches apply.
InitShared == InitWith(pluginKey, MaxRequestsShared)

SpecShared == InitShared /\ [][Next]_vars

\* -------------------------------------------------------------- scenario A
\* The user edits the text and the browser runs every timer it has scheduled;
\* no suggestion is asked for by hand and none is answered.
NextTyping ==
  \/ handleTextInput
  \/ documentChange
  \/ debounceCallback
  \/ onopen
  \/ onclose

SpecTyping == Init /\ [][NextTyping]_vars /\ WF_vars(debounceCallback)

\* ------------------------------------------------------- failing requests
\* The written program when requests fail: the requests of the timer and of
\* Mod-Space, and every reply the socket can deliver to them.
NextFailures ==
  \/ handleTextInput
  \/ debounceCallback
  \/ manualTrigger
  \/ onmessage
  \/ onmessageError
  \/ onopen
  \/ onclose

SpecFailures == Init /\ [][NextFailures]_vars

\* ------------------------------------------------------ successive replies
\* The program with the shared key when several requests are answered: typing,
\* Mod-Space, the replies and the keys, on text that nobody else edits.
InitReplies == InitWith(pluginKey, MaxRequests)

NextReplies ==
  \/ handleTextInput
  \/ handleKeyDown
  \/ manualTrigger
  \/ onmessage
  \/ onopen

SpecReplies == InitReplies /\ [][NextReplies]_vars

\* ------------------------------------- InlineSuggestions (appendTransaction)
\* The extension of the collaborative Editor asks from appendTransaction,
\* which the editor calls after every transaction, whoever made it.
PatentKeywords ==
  {<<"c", "o", "m", "p", "r", "i", "s", "i", "n", "g">>,
   <<"w", "h", "e", "r", "e", "i", "n">>,
   <<"c", "h", "a", "r", "a", "c", "t", "e", "r", "i", "z", "e", "d", " ", "b", "y">>,
   <<"i", "n", "c", "l", "u", "d", "i", "n", "g">>}

\* /(comprising|wherein|characterized by|including)\s$/i
endsInPatentKeywordSpace(before) ==
  /\ before # <<>>
  /\ isSpace(before[Len(before)])
  /\ \E k \in PatentKeywords :
       endsWith([i \in 1 .. (Len(before) - 1) |-> toLowerCase(before[i])], k)

\* shouldTriggerSuggestion of InlineSuggestions.
shouldTriggerInline(before, content) ==
  IF Len(trim(content)) < MinContentLen THEN FALSE
  ELSE IF endsWith(before, <<" ">>) THEN TRUE
  ELSE IF endsInPunctuationSpace(before) THEN TRUE
  ELSE IF endsInPatentKeywordSpace(before) THEN TRUE
  ELSE FALSE

\* A transaction of the local user or of a collaborator, and appendTransaction
\* after it: handleContentChange runs when the text content has changed.  Its
\* first call stores the document key and returns; a later call with content
\* it has not seen restarts the timer, which captures the new editor state.
appendTransaction ==
  \E origin \in {"local", "remote"}, step \in Steps(doc) :
    LET newDoc == applyStep(doc, step)
        newSelection == mapResult(step, selection, 1).pos
        contentActuallyChanged == newDoc # doc
        first == currentDocKey # documentKey
        restarts == contentActuallyChanged /\ ~first /\ newDoc # lastDocContent
        cleared == clearTimeout(timeouts, debounceTimer)
    IN /\ restarts => roomFor(cleared + 1)
       /\ doc' = newDoc
       /\ selection' = newSelection
       /\ currentDocKey' = IF contentActuallyChanged THEN documentKey ELSE currentDocKey
       /\ lastDocContent' = IF ~contentActuallyChanged THEN lastDocContent
                             ELSE IF first THEN <<>>
                             ELSE newDoc
       /\ timeouts' = IF restarts THEN setTimeout(cleared)
                      ELSE IF contentActuallyChanged /\ first THEN cleared
                      ELSE timeouts
       /\ debounceTimer' = IF restarts THEN "pending"
                           ELSE IF contentActuallyChanged /\ first /\ debounceTimer # "null"
                                THEN "spent"
                           ELSE debounceTimer
       /\ timerState' = IF restarts
                        THEN [doc |-> newDoc, selection |-> newSelection, origin |-> origin]
                        ELSE timerState
       /\ lastEvent' = Event("transaction", origin,
                             IF restarts THEN "timer"
                             ELSE IF contentActuallyChanged /\ first THEN "reset" ELSE "")
       /\ UNCHANGED <<plugin, pendingSuggestion, requests, readyState, commandKey,
                      requestsLeft, analysisResult, roomVars, hookVars>>

\* The timer callback of handleContentChange: it asks with the editor state
\* and the content that handleContentChange had when it set the timer.
contentChangeCallback ==
  /\ timeouts > 0
  /\ debounceTimer = "pending"
  /\ timeouts' = timeouts - 1
  /\ debounceTimer' = "spent"
  /\ LET pos == timerState.selection
         contextBefore == textBetween(timerState.doc, Max(0, pos - ContextLen), pos)
         contextAfter == textBetween(timerState.doc, pos,
                                     Min(Len(timerState.doc), pos + ContextLen))
     IN IF shouldTriggerInline(contextBefore, timerState.doc)
        THEN /\ requests' = requestInlineSuggestion(requests, timerState.doc, pos,
                                                    contextBefore, contextAfter)
             /\ requestsLeft' = requestsLeft - sentNow
             /\ lastEvent' = Event("timer", "last", "request")
        ELSE /\ UNCHANGED <<requests, requestsLeft>>
             /\ lastEvent' = Event("timer", "last", "")
  /\ UNCHANGED <<doc, selection, plugin, currentDocKey, pendingSuggestion, readyState,
                 commandKey, analysisResult, roomVars, hookVars, lastDocContent, timerState>>

NextInline ==
  \/ appendTransaction
  \/ contentChangeCallback
  \/ setSelection
  \/ onopen
  \/ onclose

SpecInline == Init /\ [][NextInline]_vars

\* ----------------------------------------------------- switching documents
\* The collaborative Editor while the user and the users of other tabs edit
\* and the user switches between documents and versions.
SpecCollab == Init /\ [][NextCollab]_vars

\* ------------------------------------------------------- the timer's gate
\* The timer of the last keystroke, typed at the end of the text, is pending;
\* the user may move the cursor before the timer fires.  The
\* texts are all short ones over GateChars and, for the trigger keywords and
\* the context window, longer ones that end where a keyword may.
GateLen == 3

GateChars == {"a", " ", "\t", "."}

KeywordTexts ==
  {<<"s", "h", "a", "l", "l", "\t">>,
   <<"h", "a", "l", "l", "\t">>,
   <<"H", "E", "R", "E", "B", "Y", "\n">>,
   <<"p", "u", "r", "s", "u", "a", "n", "t", " ", "t", "o", "\t">>,
   <<"n", "o", "t", "w", "i", "t", "h", "s", "t", "a", "n", "d", "i", "n", "g", "\n">>,
   <<"w", "h", "e", "r", "e", "a", "s", "\t", "a">>,
   <<"a", ".", " ", "a", "a", "a", "a", "a", "a", "a", "a", "a",
     "s", "h", "a", "l", "l", "\t", "a", "a">>}

GateTexts == UNION {[1 .. n -> GateChars] : n \in 2 .. GateLen} \cup KeywordTexts

InitGate ==
  /\ doc \in GateTexts
  /\ selection = Len(doc)
  /\ plugin = pluginInit
  /\ timeouts = 1
  /\ debounceTimer = "pending"
  /\ currentDocKey = documentKey
  /\ pendingSuggestion = null
  /\ requests = <<>>
  /\ readyState \in {"OPEN", "CLOSED"}
  /\ commandKey = freshKey
  /\ requestsLeft = MaxRequests
  /\ analysisResult = "null"
  /\ lastEvent = Event("textInput", doc[selection], "timer")
  /\ collabInit

NextGate ==
  \/ setSelection
  \/ debounceCallback

SpecGate == InitGate /\ [][NextGate]_vars

\* ------------------------------------------------------------------- claims
\* A suggestion is Active when the plugin state holds one; `shown` is it.
Active == plugin.suggestion # null
shown == plugin.suggestion[1]

\* The text before an offset that anchorText is compared with.
window(d, pos) == textBetween(d, Max(0, pos - AnchorLen), pos)

keyStep(keys) == lastEvent'.op = "keyDown" /\ lastEvent'.key \in keys

C2_SupersededNeverInstalled ==
  (pendingSuggestion # null /\ Len(pendingSuggestion[1].alternatives) > 0)
    => pendingSuggestion[1].fromLatest

\* C3: at most one suggestion is pending or active at any time (requests in
\* flight and the suggestion held count together), and a suggestion comes
\* into existence only when none is held.
C3_AtMostOneSuggestion ==
  [][/\ Len(requests') + (IF pendingSuggestion' # null THEN 1 ELSE 0) <= 1
     /\ (pendingSuggestion' # null /\ pendingSuggestion' # pendingSuggestion)
          => pendingSuggestion = null]_vars

insertedBefore(d, d2, pos) ==
  /\ Len(d2) = Len(d) + 1
  /\ \A p \in 0 .. Len(d), ch \in Chars : d2 = insertText(d, <<ch>>, p) => p < pos

RECURSIVE nextTimes(_, _)
nextTimes(s, k) ==
  IF k = 0 THEN s ELSE nextTimes([s EXCEPT !.currentIndex = nextIndex(s)], k - 1)

C8_RejectIsIdempotent ==
  [][keyStep({"Escape"})
       => /\ doc' = doc
          /\ plugin' = pluginInit
          /\ pendingSuggestion' = (IF Active THEN null ELSE pendingSuggestion)
          /\ lastEvent'.result = (IF Active THEN "rejected" ELSE "pass")]_vars

\* C8 happens: Escape has just rejected an Active suggestion.
C8_Rejected ==
  /\ lastEvent = Event("keyDown", "Escape", "rejected")
  /\ plugin = pluginInit
  /\ pendingSuggestion = null

\* The gate of the debounce callback on the text as it is now.
gateOpen ==
  shouldTriggerSuggestion(textBetween(doc, Max(0, selection - ContextLen), selection), doc)

timerRequest == lastEvent = Event("timer", "last", "request")

\* C9: at most one debounce timer is pending, the one of the last keystroke;
\* a request is sent only by its callback; and once it is pending on a text
\* that passes the gate, its callback sends a request unless the text stops
\* passing the gate first.
C9_OneRequestAfterDebounce ==
  /\ [](/\ timeouts <= 1
        /\ (timeouts = 1) <=> (debounceTimer = "pending")
        /\ lastEvent.op = "timer" => (lastEvent.key = "last" /\ timeouts = 0))
  /\ [][lastEvent'.result = "request" => lastEvent'.op = "timer"]_vars
  /\ (debounceTimer = "pending" /\ gateOpen) ~> (timerRequest \/ ~gateOpen)

\* C9 happens: the callback of the last keystroke has sent the one request.
C9_Requested ==
  /\ timerRequest
  /\ timeouts = 0
  /\ Len(requests) = 1
  /\ doc = <<"a", " ">>

\* C10: Tab, Escape and the arrows without a suggestion, and the arrows on a
\* suggestion with one alternative, change neither the document nor the
\* suggestion, tell the host nothing and do not throw.
C10_CommandsWithoutTargetAreNoOps ==
  [][(\/ ~Active /\ keyStep({"Tab", "Escape", "ArrowRight", "ArrowLeft"})
      \/ Active /\ Len(shown.alternatives) = 1 /\ keyStep({"ArrowRight", "ArrowLeft"}))
       => /\ doc' = doc
          /\ plugin' = plugin
          /\ pendingSuggestion' = pendingSuggestion
          /\ lastEvent'.result = "pass"]_vars

\* C10 happens: an arrow was pressed on a suggestion with one alternative.
C10_SingleAlternative ==
  /\ lastEvent = Event("keyDown", "ArrowRight", "pass")
  /\ Active
  /\ Len(shown.alternatives) = 1

\* A reply that carried a suggestion message (not an error) was just handled.
replied == lastEvent.op = "message" /\ lastEvent.result \in {"", "threw"}

C13_ResponseInstalls ==
  (/\ replied
   /\ lastEvent.key = "latest"
   /\ pendingSuggestion # null
   /\ Len(pendingSuggestion[1].alternatives) > 0)
    => /\ Active
       /\ shown = cursorSuggestion(pendingSuggestion[1])
       /\ plugin.decorations # DecorationSetEmpty

C15_FailuresSwallowed ==
  [][(\/ lastEvent'.op = "message" /\ lastEvent'.result \in {"error", "malformed"}
      \/ lastEvent'.op = "close" /\ requests # <<>>
      \/ lastEvent'.result = "request" /\ readyState # "OPEN")
       => /\ plugin' = plugin
          /\ pendingSuggestion' = pendingSuggestion
          /\ analysisResult' = analysisResult]_vars

\* C16: Mod-Space can be pressed in every state and asks at once for a
\* suggestion at the cursor, whatever the text is and whatever timer is
\* pending, changing nothing else.
C16_ManualTriggerAlwaysAsks ==
  /\ [](roomFor(timeouts + 1) => ENABLED manualTrigger)
  /\ [][lastEvent'.op = "manual"
          => /\ lastEvent'.result = "request"
             /\ requests' = requestInlineSuggestion(requests, doc, selection,
                              textBetween(doc, Max(0, selection - ContextLen), selection),
                              textBetween(doc, selection, Min(Len(doc), selection + ContextLen)))
             /\ UNCHANGED <<doc, selection, plugin, timeouts, debounceTimer,
                            pendingSuggestion>>]_vars

\* C16 happens: Mod-Space has sent a request on a text the gate refuses,
\* while the debounce timer was still pending.
C16_AskedAgainstGate ==
  /\ lastEvent = Event("manual", "", "request")
  /\ ~gateOpen
  /\ timeouts = 1
  /\ Len(requests) = 1

\* C17: the document changes only by an edit of a user, typed or not, and
\* by Tab on an Active suggestion, which inserts the text of the current
\* alternative; replies, cycling, Escape, timers and requests leave it alone.
C17_OnlyAcceptWrites ==
  [][doc' # doc
       => \/ lastEvent'.op \in {"textInput", "change"}
          \/ /\ lastEvent' = Event("keyDown", "Tab", "accepted")
             /\ Active
             /\ shown.position <= Len(doc)
             /\ doc' = insertText(doc, acceptedText(shown), shown.position)]_vars

\* C17 happens: a reply has put ghost text on show over an empty document.
C17_GhostOutsideDocument ==
  /\ replied
  /\ Active
  /\ plugin.decorations # DecorationSetEmpty
  /\ plugin.decorations[1].text # <<>>
  /\ doc = <<>>

\* A reply whose current_index names none of its alternatives.
indexOutside(r) == r.current_index \notin 0 .. (Len(r.alternatives) - 1)

\* C18: a suggestion held by the plugin has alternatives and a currentIndex
\* that names one of them; a reply whose index names none is not installed.
C18_IndexInRange ==
  /\ [](Active => /\ Len(shown.alternatives) > 0
                  /\ shown.currentIndex \in 0 .. (Len(shown.alternatives) - 1))
  /\ [][(lastEvent'.op = "message" /\ lastEvent'.result \in {"", "threw"}
         /\ indexOutside(pendingSuggestion'[1]))
          => plugin' = plugin]_vars

\* C18 happens: a reply with an index outside its alternatives was handled.
C18_IndexOutsideRefused ==
  /\ lastEvent = Event("message", "latest", "threw")
  /\ pendingSuggestion # null
  /\ Len(pendingSuggestion[1].alternatives) > 0
  /\ indexOutside(pendingSuggestion[1])
  /\ ~Active

localInsertion ==
  \/ lastEvent'.op = "textInput"
  \/ lastEvent'.op = "change" /\ lastEvent'.key = "local" /\ Len(doc') > Len(doc)

\* C21: every insertion of the local user, the first typed character and
\* pasted text included, leaves exactly one debounce timer pending, the one
\* it started; at no time is more than one timer pending.
C21_InsertionRestartsTimer ==
  /\ [](timeouts <= 1)
  /\ [][localInsertion => (timeouts' = 1 /\ debounceTimer' = "pending")]_vars

\* All the text before the cursor.
precedingText == SubSeq(doc, 1, selection)

\* The timer fired and called onSuggestionRequest.
asked == lastEvent'.op = "timer" /\ lastEvent'.result = "request"

\* C22 as stated: the timer asks exactly when the document is at least as
\* long as the threshold and the text before the cursor ends in white space,
\* in sentence punctuation and white space, or in a keyword and white space.
C22_TimerAsksIffLongAndWhitespace ==
  [][lastEvent'.op = "timer"
       => (asked <=> /\ Len(doc) >= MinContentLen
                     /\ \/ (precedingText # <<>> /\ isSpace(precedingText[Len(precedingText)]))
                        \/ endsInPunctuationSpace(precedingText)
                        \/ endsInKeywordSpace(precedingText))]_vars

\* C22: when the debounce timer fires it asks for a suggestion exactly when
\* the document without the white space at its ends is at least as long as
\* the threshold and the text before the cursor ends in a space character,
\* in sentence punctuation and any white space, or in a trigger keyword and
\* any white space; what it asks is sent when the socket is open, and when it
\* does not ask nothing is sent.
C22_TimerAsksIffGate ==
  [][lastEvent'.op = "timer"
       => /\ asked <=> /\ Len(trim(doc)) >= MinContentLen
                       /\ \/ endsWith(precedingText, <<" ">>)
                          \/ endsInPunctuationSpace(precedingText)
                          \/ endsInKeywordSpace(precedingText)
          /\ Len(requests') = Len(requests) + (IF asked /\ readyState = "OPEN" THEN 1 ELSE 0)]_vars

\* The timer asked over a text that ends in a keyword and a tab.
C22_AskedAfterKeyword ==
  /\ lastEvent = Event("timer", "last", "request")
  /\ selection > 0
  /\ doc[selection] = "\t"
  /\ ~endsInPunctuationSpace(precedingText)
  /\ Len(requests) = 1

\* The step deleted the text the anchor of the Active suggestion stands on:
\* the window before its position, which held anchorText.
anchorDeleted ==
  /\ Active
  /\ lastEvent'.op = "change"
  /\ shown.position \in 1 .. Len(doc)
  /\ shown.anchorText # <<>>
  /\ window(doc, shown.position) = shown.anchorText
  /\ doc' = deleteRange(doc, Max(0, shown.position - AnchorLen), shown.position)

overlay == plugin.decorations

sent == requests[Len(requests)]

\* C26: the request the debounce timer sends carries the whole text, the
\* cursor offset, the last ContextLen characters before the cursor and the
\* first ContextLen characters after it (fewer where the text ends), all as
\* they are when the timer fires.
C26_RequestCarriesStateAtFiring ==
  [][(asked /\ readyState = "OPEN")
       => /\ Len(requests') = Len(requests) + 1
          /\ sent'.content = doc
          /\ sent'.cursor_position = selection
          /\ sent'.context_before = SubSeq(doc, Max(1, selection - ContextLen + 1), selection)
          /\ sent'.context_after = SubSeq(doc, selection + 1, Min(Len(doc), selection + ContextLen))
          /\ Len(sent'.context_before) <= ContextLen
          /\ Len(sent'.context_after) <= ContextLen]_vars

\* C26 happens: the cursor was moved back after the last keystroke, and the
\* timer has sent a request from there whose window before the cursor is
\* full and shorter than the text before the cursor.
C26_SentFromMovedCursor ==
  /\ lastEvent = Event("timer", "last", "request")
  /\ requests # <<>>
  /\ sent.cursor_position = selection
  /\ selection < Len(doc)
  /\ selection > ContextLen
  /\ Len(sent.context_before) = ContextLen
  /\ sent.context_after # <<>>

\* C27: the room name determines the document and the version, and every
\* update a room holds was made by a client connected to that room.
C27_RoomsIsolated ==
  /\ \A d1 \in DocumentIds, d2 \in DocumentIds, v1 \in VersionNumbers, v2 \in VersionNumbers :
       roomName(d1, v1) = roomName(d2, v2) => (d1 = d2 /\ v1 = v2)
  /\ \A r \in Rooms : \A u \in rooms[r] : u.room = r

changedAfterAnchor ==
  /\ Active
  /\ lastEvent'.op = "change"
  /\ \E step \in Steps(doc) : /\ step[1].start >= shown.position
                              /\ doc' = applyStep(doc, step)

C30_RemoteNeverStartsTimer ==
  /\ [][(lastEvent'.op = "transaction" /\ lastEvent'.key = "remote")
          => UNCHANGED <<timeouts, debounceTimer>>]_vars
  /\ [][asked => timerState.origin = "local"]_vars

\* The ids the service hands out in one run.
SuggestionIds == 1 .. MaxRequests

\* The suggestion with id i is the Active one.
ActiveId(i) == Active /\ shown.id = i

\* The step is Tab or Escape on the Active suggestion.
acceptedOrRejected ==
  /\ lastEvent'.op = "keyDown"
  /\ lastEvent'.result \in {"accepted", "rejected"}

\* C31: a suggestion that was accepted or rejected is not Active after the
\* key, and a suggestion that stopped being Active (accepted, rejected,
\* expired or replaced) is never Active again, whatever happens later.
C31_GoneStaysGone ==
  /\ [][acceptedOrRejected => ~Active']_vars
  /\ \A i \in SuggestionIds :
       [](ActiveId(i) => [](~ActiveId(i) => [] ~ActiveId(i)))

\* A key is pressed after the suggestion the hook still holds has expired,
\* and finds none to act on.
C31_KeyAfterExpiryPasses ==
  /\ lastEvent.op = "keyDown"
  /\ lastEvent.result = "pass"
  /\ ~Active
  /\ pendingSuggestion # null
  /\ pendingSuggestion[1].current_index < Len(pendingSuggestion[1].alternatives)

\* ------------------------------------------------------ plugin view destroy
\* Variant of destroy that leaves the scheduled callback alone; C32 must fail
\* on it.
destroyKeepsTimer ==
  /\ lastEvent' = Event("destroy", "", IF debounceTimer = "pending" THEN "cleared" ELSE "")
  /\ UNCHANGED <<collabVars, doc, selection, plugin, timeouts, debounceTimer, currentDocKey,
                 pendingSuggestion, requests, readyState, commandKey, analysisResult,
                 requestsLeft>>

\* Plugin.view().destroy: the editor destroys the plugin view when the editor
\* is destroyed or its plugins are reconfigured.  It unschedules the callback
\* the handle names and leaves the handle as it is.  `result` is history: a
\* callback was scheduled.
destroy ==
  /\ timeouts' = clearTimeout(timeouts, debounceTimer)
  /\ debounceTimer' = IF debounceTimer = "pending" THEN "spent" ELSE debounceTimer
  /\ lastEvent' = Event("destroy", "", IF debounceTimer = "pending" THEN "cleared" ELSE "")
  /\ UNCHANGED <<collabVars, doc, selection, plugin, currentDocKey, pendingSuggestion,
                 requests, readyState, commandKey, analysisResult, requestsLeft>>

\* The user types, the timers run and the plugin view is destroyed at any
\* moment.
NextDestroy ==
  \/ handleTextInput
  \/ setSelection
  \/ debounceCallback
  \/ destroy
  \/ onopen
  \/ onclose

SpecDestroy == Init /\ [][NextDestroy]_vars

\* C32: when the plugin view has been destroyed no debounce callback is left
\* scheduled, so the step after the destruction is never a callback of a timer
\* that was pending then, and no request comes from one.
C32_DestroyCancelsTimer ==
  /\ [](lastEvent.op = "destroy" => timeouts = 0)
  /\ [][lastEvent.op = "destroy" => lastEvent'.op # "timer"]_vars

\* The view was destroyed while a callback was scheduled that would have
\* asked for a suggestion.
C32_DestroyedWhilePending ==
  /\ lastEvent.op = "destroy"
  /\ lastEvent.result = "cleared"
  /\ readyState = "OPEN"
  /\ shouldTriggerSuggestion(textBetween(doc, Max(0, selection - ContextLen), selection), doc)

\* ---------------------------------------------- useSocket: the connection
\* Most stream updates kept in one run.
MaxStreamUpdates == 2

\* Close codes of a close event: normal closure, and the abnormal closure
\* the browser reports for a connection that failed or was lost.
CloseCodes == {1000, 1006}

\* response.phase of an analyzing message; "undefined" when it has none.
Phases == {"undefined", "analysis"}

\* What a message of the service can be: the five statuses the handler
\* knows, a status it does not know, and text that is not JSON.
MessageKinds == {"analyzing", "complete", "inline_suggestion", "error", "streaming",
                 "other", "malformed"}

\* An inline suggestion the service pushes.
pushedSuggestion ==
  <<response([cursor_position |-> 0, context_before |-> <<>>, superseded |-> FALSE,
              number |-> 0], 1, 0)>>

\* What the connection code of the hook never touches.
hostVars == <<timeouts, debounceTimer, currentDocKey, requests, commandKey, requestsLeft,
              roomVars, inlineVars>>

\* Variant of closed that retries only a connection that had been open; C34
\* must fail on it.
closedNoRetry(code, op) ==
  LET schedules == code # 1000 /\ reconnectTimeout = "null" /\ established
  IN /\ readyState \in {"CONNECTING", "OPEN", "CLOSING"}
     /\ ~established => code = 1006
     /\ readyState' = "CLOSED"
     /\ isConnected' = FALSE
     /\ isAnalyzing' = FALSE
     /\ reconnectTimeout' = IF schedules THEN "pending" ELSE reconnectTimeout
     /\ reconnectTimers' = IF schedules THEN reconnectTimers + 1 ELSE reconnectTimers
     /\ lastEvent' = Event(op, ToString(code), IF schedules THEN "reconnect" ELSE "")
     /\ UNCHANGED <<doc, selection, plugin, pendingSuggestion, analysisResult, currentPhase,
                    streamUpdates, mounted, established, hostVars>>

\* Variant of closed that leaves isAnalyzing as it is; C35 must fail on it.
closedKeepsAnalyzing(code, op) ==
  LET schedules == code # 1000 /\ reconnectTimeout = "null"
  IN /\ readyState \in {"CONNECTING", "OPEN", "CLOSING"}
     /\ ~established => code = 1006
     /\ readyState' = "CLOSED"
     /\ isConnected' = FALSE
     /\ reconnectTimeout' = IF schedules THEN "pending" ELSE reconnectTimeout
     /\ reconnectTimers' = IF schedules THEN reconnectTimers + 1 ELSE reconnectTimers
     /\ lastEvent' = Event(op, ToString(code), IF schedules THEN "reconnect" ELSE "")
     /\ UNCHANGED <<doc, selection, plugin, pendingSuggestion, analysisResult, currentPhase,
                    streamUpdates, mounted, established, isAnalyzing, hostVars>>

\* The close event of the current socket with the given code: ws.onclose.  A
\* socket that never opened closes with 1006.  `op` is "error" when the
\* browser fires the error event first, in the same turn of the event loop: ws.onerror sets
\* the same two flags that ws.onclose sets after it.
closed(code, op) ==
  LET schedules == code # 1000 /\ reconnectTimeout = "null"
  IN /\ readyState \in {"CONNECTING", "OPEN", "CLOSING"}
     /\ ~established => code = 1006
     /\ readyState' = "CLOSED"
     /\ isConnected' = FALSE
     /\ isAnalyzing' = FALSE
     /\ reconnectTimeout' = IF schedules THEN "pending" ELSE reconnectTimeout
     /\ reconnectTimers' = IF schedules THEN reconnectTimers + 1 ELSE reconnectTimers
     /\ lastEvent' = Event(op, ToString(code), IF schedules THEN "reconnect" ELSE "")
     /\ UNCHANGED <<doc, selection, plugin, pendingSuggestion, analysisResult, currentPhase,
                    streamUpdates, mounted, established, hostVars>>

\* ws.onopen: the connection is established; a pending reconnect is cancelled.
wsOnopen ==
  /\ readyState = "CONNECTING"
  /\ readyState' = "OPEN"
  /\ established' = TRUE
  /\ isConnected' = TRUE
  /\ reconnectTimers' = IF reconnectTimeout = "pending" THEN reconnectTimers - 1
                        ELSE reconnectTimers
  /\ reconnectTimeout' = "null"
  /\ lastEvent' = Event("open", "", "")
  /\ UNCHANGED <<doc, selection, plugin, pendingSuggestion, analysisResult, isAnalyzing,
                 currentPhase, streamUpdates, mounted, hostVars>>

\* ws.onclose: the close event of a connection that ended without an error
\* event.
wsOnclose == \E code \in CloseCodes : closed(code, "close")

\* ws.onerror and the ws.onclose that follows it: the connection failed.
wsOnerror == closed(1006, "error")

\* The callback of the reconnect timer: connectWebSocket() makes a new
\* socket, which becomes wsRef.current.  `result` of the event is history:
\* the socket it replaces had never been open.
reconnectCallback ==
  /\ reconnectTimers > 0
  /\ reconnectTimers' = reconnectTimers - 1
  /\ reconnectTimeout' = "null"
  /\ readyState' = "CONNECTING"
  /\ established' = FALSE
  /\ lastEvent' = Event("connect", IF mounted THEN "mounted" ELSE "unmounted",
                        IF established THEN "" ELSE "retry")
  /\ UNCHANGED <<doc, selection, plugin, pendingSuggestion, analysisResult, isConnected,
                 isAnalyzing, currentPhase, streamUpdates, mounted, hostVars>>

\* ws.onmessage, all its branches.  The browser delivers messages only on
\* an open socket.
wsOnmessage ==
  \E kind \in MessageKinds, phase \in Phases, hasMessage \in BOOLEAN :
    LET update == [status |-> "analyzing", phase |-> phase]
        appends == (kind = "analyzing" /\ hasMessage) \/ kind = "streaming"
    IN /\ readyState = "OPEN"
       /\ kind # "analyzing" => (phase = "undefined" /\ ~hasMessage)
       /\ appends => Len(streamUpdates) < MaxStreamUpdates
       /\ isAnalyzing' = IF kind = "analyzing" THEN TRUE
                         ELSE IF kind \in {"complete", "error", "malformed"} THEN FALSE
                         ELSE isAnalyzing
       /\ currentPhase' = IF kind = "analyzing" /\ phase # "undefined" THEN phase
                          ELSE currentPhase
       /\ streamUpdates' = IF appends THEN Append(streamUpdates, update) ELSE streamUpdates
       /\ analysisResult' = IF kind \in {"analyzing", "complete", "error", "malformed"}
                            THEN kind ELSE analysisResult
       /\ IF kind = "inline_suggestion"
          THEN /\ pendingSuggestion' = pushedSuggestion
               /\ setView(editorEffect(view, pushedSuggestion))
          ELSE UNCHANGED <<doc, selection, plugin, pendingSuggestion>>
       /\ lastEvent' = Event("message", kind, "")
       /\ UNCHANGED <<readyState, isConnected, reconnectTimeout, reconnectTimers, mounted,
                      established, hostVars>>

\* Variant of requestAISuggestions that marks the analysis as started before
\* it looks at the socket; C36 must fail on it.
requestAISuggestionsEager ==
  /\ mounted
  /\ isAnalyzing' = TRUE
  /\ IF readyState # "OPEN"
     THEN /\ analysisResult' = "connection-error"
          /\ lastEvent' = Event("analyze", "", "dropped")
          /\ UNCHANGED <<streamUpdates, currentPhase>>
     ELSE /\ analysisResult' = "null"
          /\ streamUpdates' = <<>>
          /\ currentPhase' = "undefined"
          /\ lastEvent' = Event("analyze", "", "sent")
  /\ UNCHANGED <<doc, selection, plugin, pendingSuggestion, readyState, isConnected,
                 reconnectTimeout, reconnectTimers, mounted, established, hostVars>>

\* requestAISuggestions(content).  `result` of the event is history: the
\* content was sent, or the call returned before send.
requestAISuggestions ==
  /\ mounted
  /\ IF readyState # "OPEN"
     THEN /\ analysisResult' = "connection-error"
          /\ lastEvent' = Event("analyze", "", "dropped")
          /\ UNCHANGED <<isAnalyzing, streamUpdates, currentPhase>>
     ELSE /\ isAnalyzing' = TRUE
          /\ analysisResult' = "null"
          /\ streamUpdates' = <<>>
          /\ currentPhase' = "undefined"
          /\ lastEvent' = Event("analyze", "", "sent")
  /\ UNCHANGED <<doc, selection, plugin, pendingSuggestion, readyState, isConnected,
                 reconnectTimeout, reconnectTimers, mounted, established, hostVars>>

\* The cleanup of the effect, run when the component unmounts: it cancels
\* the reconnect timer, keeping the handle, and closes the current socket
\* with code 1000.  close() on a closing or closed socket does nothing.
cleanup ==
  /\ mounted
  /\ mounted' = FALSE
  /\ reconnectTimers' = IF reconnectTimeout = "pending" THEN reconnectTimers - 1
                        ELSE reconnectTimers
  /\ reconnectTimeout' = IF reconnectTimeout = "pending" THEN "cleared" ELSE reconnectTimeout
  /\ readyState' = IF readyState \in {"CONNECTING", "OPEN"} THEN "CLOSING" ELSE readyState
  /\ lastEvent' = Event("unmount", readyState, "")
  /\ UNCHANGED <<doc, selection, plugin, pendingSuggestion, analysisResult, isConnected,
                 isAnalyzing, currentPhase, streamUpdates, established, hostVars>>

NextSocket ==
  \/ wsOnopen
  \/ wsOnclose
  \/ wsOnerror
  \/ wsOnmessage
  \/ reconnectCallback
  \/ requestAISuggestions
  \/ cleanup

SpecSocket == Init /\ [][NextSocket]_vars

\* The browser runs every timer it has scheduled.
SpecSocketFair == SpecSocket /\ WF_vars(reconnectCallback)

\* C33: after the hook is unmounted no new WebSocket connection is opened,
\* whatever state the socket was in at unmount.
C33_NoConnectionAfterUnmount ==
  [][~mounted => lastEvent'.op # "connect"]_vars

\* The last event is a close of the socket with a code other than 1000.
abnormalClose == lastEvent.op \in {"close", "error"} /\ lastEvent.key # "1000"

\* C34: at most one reconnect timer is scheduled at any time, and while the
\* hook stays mounted every abnormal close, that of a failed reconnect
\* attempt too, is followed by a new connection attempt.
C34_AbnormalCloseReconnects ==
  /\ [](reconnectTimers <= 1)
  /\ [](reconnectTimers = 1 <=> reconnectTimeout = "pending")
  /\ ((abnormalClose /\ mounted) ~> (lastEvent.op = "connect" \/ ~mounted))

\* A new attempt is made after a reconnect attempt failed: an earlier socket
\* had delivered a message, and the socket just replaced never opened.
C34_RetriedAfterFailedReconnect ==
  /\ lastEvent = Event("connect", "mounted", "retry")
  /\ analysisResult = "analyzing"

\* C35: whenever the hook reports an analysis in progress it reports the
\* connection as up.
C35_AnalyzingImpliesConnected == isAnalyzing => isConnected

\* An analysis is in progress and reported as such: an analyzing message
\* with a phase has come on the open socket.
C35_AnalyzingOnOpenSocket ==
  /\ isAnalyzing
  /\ isConnected
  /\ lastEvent = Event("message", "analyzing", "")
  /\ currentPhase = "analysis"

\* The step is a call of requestAISuggestions.
analyzeCalled == lastEvent'.op = "analyze"

\* C36: requestAISuggestions on a socket that is not open sends nothing,
\* stores the connection error as the result and leaves isAnalyzing, the
\* stream updates, the phase and the pending inline suggestion as they were;
\* on an open socket it sends, with the result, the stream updates and the
\* phase cleared and isAnalyzing set.  In both cases the pending inline
\* suggestion and the connection flag stay.
C36_RequestWhenClosedOrOpen ==
  [][analyzeCalled =>
       /\ UNCHANGED <<pendingSuggestion, isConnected, readyState>>
       /\ IF readyState # "OPEN"
          THEN /\ lastEvent'.result = "dropped"
               /\ analysisResult' = "connection-error"
               /\ UNCHANGED <<isAnalyzing, streamUpdates, currentPhase>>
          ELSE /\ lastEvent'.result = "sent"
               /\ analysisResult' = "null"
               /\ streamUpdates' = <<>>
               /\ currentPhase' = "undefined"
               /\ isAnalyzing']_vars

\* requestAISuggestions was called on a closed socket after an analysis had
\* left a result, stream updates, a phase and an inline suggestion.
C36_DroppedWithStateKept ==
  /\ lastEvent = Event("analyze", "", "dropped")
  /\ analysisResult = "connection-error"
  /\ ~isAnalyzing
  /\ streamUpdates # <<>>
  /\ currentPhase = "analysis"
  /\ pendingSuggestion # null

====
